---- MODULE Spec2Model ----
(***************************************************************************)
(* Model of one game room of src/server.py: the room record kept in the    *)
(* process-wide `games` map, the HTTP operation join_room and the          *)
(* coroutine websocket_endpoint, one instance per open connection.         *)
(*                                                                         *)
(* The server runs on a single asyncio event loop, so a handler runs       *)
(* without interruption between two awaits.  The awaits of the handler     *)
(* are send_text (line 392), receive_text (line 396) and sleep (line 519). *)
(* Each action below is one such uninterrupted segment.                    *)
(*                                                                         *)
(* `state = games[room_id]["state"].copy()` (line 389) is a SHALLOW copy:  *)
(* the scalar entries (turn, phase, encounter_number, winner) and the      *)
(* references held under "enemies", "loot_pool" and "shop_items" are       *)
(* copied, the dictionaries player_positions, player_hp, inventory, gold   *)
(* and xp are shared with the stored state and are never replaced, so      *)
(* each of them is a single object for the life of the room.  The enemy    *)
(* dictionary and the loot list are replaced by next_phase and mutated in  *)
(* place by attack/spell/loot, so they live in a heap and the state holds  *)
(* a reference to them.  shop_items is replaced but never mutated, so it   *)
(* is held by value.                                                       *)
(***************************************************************************)
EXTENDS Integers, Sequences, FiniteSets, TLC

VARIABLES
    players,           \* games[room]["players"]: player -> player record
    player_order,      \* games[room]["player_order"]
    st,                \* games[room]["state"]: the scalar entries and references
    player_positions,  \* state["player_positions"] (shared dictionary)
    player_hp,         \* state["player_hp"]        (shared dictionary)
    inventory,         \* state["inventory"]        (shared dictionary)
    gold,              \* state["gold"]             (shared dictionary)
    xp,                \* state["xp"]               (shared dictionary)
    level,             \* state["level"]            (shared dictionary)
    spells,            \* state["spells"]           (shared dictionary)
    enemiesHeap,       \* the enemy dictionaries, by reference
    lootHeap,          \* the loot lists, by reference
    conn,              \* per connection: position of its handler and its local `state`
    last,              \* the last step: operation, player, whether it took effect, and the
                       \* stored turn it found (observation only, never read by an action)
    received,          \* number of messages the handlers have received from the clients
    games              \* the other rooms of the process-wide `games` map, by identifier

vars == <<players, player_order, st, player_positions, player_hp, inventory,
          gold, xp, level, spells, enemiesHeap, lootHeap, conn, last, received,
          games>>

----------------------------------------------------------------------------
(* Bounds and input sets *)

\* the clients send at most this many messages in all
MaxReceived == 3

Null == "null"

\* player identifiers used by the clients
Players == {"A", "B"}

\* the connections the clients open, and the {player} path segment of each
Conns == {"c1", "c2", "c3"}
ConnPlayer == [c \in Conns |-> IF c = "c3" THEN "B" ELSE "A"]

\* references into the two heaps: the stored state and every handler may
\* each hold a different object, and one more is needed to allocate
ObjIds == 0 .. (Cardinality(Conns) + 1)

\* outcomes of the random draws that are explored
AttackDamages == {15}          \* random.randint(5, 15)
SpellDamages  == {25}          \* random.randint(15, 25)
HealAmounts   == {10}          \* random.randint(10, 20)
GoldAwards    == {30}          \* random.randint(10, 30)
EnemyTypes    == {"Goblin"}   \* random.choice(enemy_types)

\* inputs of the clients
Directions  == {"up", "down", "left", "right", "sideways"}
JoinClasses == {"Warrior"}
HealSpells   == {"Healing Word", "Cure Wounds"}
DamageSpells == {"Fireball", "Magic Missile"}
NoEnemy == <<"Nobody", 0>>

----------------------------------------------------------------------------
(* Helpers for Python dictionaries and lists *)

EmptyFn == [x \in {} |-> 0]

Range(s) == {s[i] : i \in 1 .. Len(s)}

\* d[k] = v
Put(d, k, v) == [x \in (DOMAIN d) \cup {k} |-> IF x = k THEN v ELSE d[x]]

\* del d[k]
Del(d, k) == [x \in (DOMAIN d) \ {k} |-> d[x]]

\* d.get(k, dflt)
Get(d, k, dflt) == IF k \in DOMAIN d THEN d[k] ELSE dflt

\* list.index(x), 1-based; only used when x is in the list
IndexOf(s, x) == CHOOSE i \in 1 .. Len(s) : s[i] = x /\ \A j \in 1 .. (i - 1) : s[j] # x

\* list.remove(x): drops the first occurrence
Remove(s, x) ==
    LET i == IndexOf(s, x)
    IN  [j \in 1 .. (Len(s) - 1) |-> IF j < i THEN s[j] ELSE s[j + 1]]

Min(a, b) == IF a < b THEN a ELSE b

----------------------------------------------------------------------------
(* Static game data *)

\* create_new_player: the Con entry of `attributes` for a class
ClassCon(player_class) ==
    CASE player_class = "Warrior" -> 14
      [] player_class = "Paladin" -> 15
      [] player_class = "Cleric"  -> 14
      [] player_class = "Priest"  -> 13
      [] player_class = "Mage"    -> 13
      [] player_class = "Ranger"  -> 14
      [] OTHER                    -> 14

\* create_new_player: the entries of the new record that the room uses
create_new_player(player_class) ==
    [hp        |-> 10 + ClassCon(player_class),
     max_hp    |-> 10 + ClassCon(player_class),
     gold      |-> 0,
     xp        |-> 0,
     level     |-> 1,
     spells    |-> << >>,
     inventory |-> << >>]

\* load_player_data: the save files present in the save directory.  The one
\* explored is a Warrior saved by the shop -> setup step after two encounters
\* that awarded 30 gold each.
SaveFiles ==
    {[hp |-> 24, max_hp |-> 24, gold |-> 60, xp |-> 200, level |-> 1,
      spells |-> << >>, inventory |-> << >>]}

\* load_player_data returns whatever the file holds: a save file whose
\* character has no hit points left
FallenSaveFiles ==
    {[hp |-> 0, max_hp |-> 24, gold |-> 60, xp |-> 200, level |-> 1,
      spells |-> << >>, inventory |-> << >>]}

\* generate_shop_items: the catalogue, as name and cost
ShopCatalog ==
    <<[name |-> "Health Potion", cost |-> 50, origin |-> "shop"],
      [name |-> "Mana Potion",   cost |-> 50, origin |-> "shop"],
      [name |-> "Iron Sword",    cost |-> 100, origin |-> "shop"],
      [name |-> "Leather Armor", cost |-> 80, origin |-> "shop"],
      [name |-> "Magic Ring",    cost |-> 200, origin |-> "shop"]>>

\* the outcomes of random.sample(items, 3) that are explored, as indices
ShopSamples == {<<1, 3, 4>>, <<2, 1, 5>>}

generate_shop_items ==
    {[i \in 1 .. 3 |-> ShopCatalog[smp[i]]] : smp \in ShopSamples}

\* generate_loot: the four loot entries (their amount/value is never read)
LootCatalog ==
    <<[name |-> "Gold",          cost |-> 0, origin |-> "loot"],
      [name |-> "Health Potion", cost |-> 0, origin |-> "loot"],
      [name |-> "Magic Scroll",  cost |-> 0, origin |-> "loot"],
      [name |-> "Gem",           cost |-> 0, origin |-> "loot"]>>

\* the outcomes of random.sample(loot, 2) that are explored, as indices
LootSamples == {<<2, 4>>}

generate_loot ==
    {[i \in 1 .. 2 |-> LootCatalog[smp[i]]] : smp \in LootSamples}

\* generate_encounter, the branch taken when encounters.json is absent:
\* min(n + 1, 4) enemies with 20 + 5n hit points, named "<type> <i+1>"
\* (here the pair <<type, i+1>>), each on a random cell, drawn from cells.
generate_encounter(encounter_number, cells) ==
    LET num == Min(encounter_number + 1, 4)
    IN  { [nm \in {<<ty[i], i>> : i \in 1 .. num} |->
              [hp       |-> 20 + (encounter_number * 5),
               position |-> ps[nm[2]]]] :
          ty \in [1 .. num -> EnemyTypes], ps \in [1 .. num -> cells] }


----------------------------------------------------------------------------
(* Connections and the heap *)

\* the local `state` of a handler that is not waiting for an action
NoState == [turn |-> Null, phase |-> "none", encounter_number |-> 0,
            winner |-> Null, enemies |-> 0, loot_pool |-> 0, shop_items |-> << >>]

Closed == [pc |-> "closed", state |-> NoState]

\* Lines 389-395 and 517-519: copy the stored state, send it, then wait for
\* an action if the copy says it is this player's turn, else sleep.
Snapshot(c, s) ==
    IF s.turn = ConnPlayer[c]
    THEN [pc |-> "recv", state |-> s]
    ELSE [pc |-> "sleep", state |-> NoState]

\* the references held by the stored state s and by the waiting handlers of cn
EnemyRefs(s, cn) ==
    {s.enemies} \cup {cn[c].state.enemies : c \in {d \in Conns : cn[d].pc = "recv"}}

LootRefs(s, cn) ==
    {s.loot_pool} \cup {cn[c].state.loot_pool : c \in {d \in Conns : cn[d].pc = "recv"}}

\* objects nothing refers to are reclaimed
CollectEnemies(h, refs) == [i \in ObjIds |-> IF i \in refs THEN h[i] ELSE EmptyFn]

CollectLoot(h, refs) == [i \in ObjIds |-> IF i \in refs THEN h[i] ELSE << >>]

\* the address of a newly created dictionary / list
FreshEnemyId == CHOOSE i \in ObjIds : i \notin EnemyRefs(st, conn)

FreshLootId == CHOOSE i \in ObjIds : i \notin LootRefs(st, conn)

\* what a handler holding the local state s works on: its own copy of the
\* scalar entries, and the shared objects
World(s) ==
    [state            |-> s,
     player_positions |-> player_positions,
     player_hp        |-> player_hp,
     inventory        |-> inventory,
     gold             |-> gold,
     xp               |-> xp,
     eh               |-> enemiesHeap,
     lh               |-> lootHeap,
     crashed          |-> FALSE]

----------------------------------------------------------------------------
(* The action handlers of websocket_endpoint, lines 401-496.  Each maps the *)
(* world the handler sees to the world it leaves.                           *)

\* lines 401-415
DoMove(W, player, direction) ==
    LET current_pos == Get(W.player_positions, player, <<0, 0>>)
        new_pos ==
            CASE direction = "up"    /\ current_pos[2] > 0 -> <<current_pos[1], current_pos[2] - 1>>
              [] direction = "down"  /\ current_pos[2] < 5 -> <<current_pos[1], current_pos[2] + 1>>
              [] direction = "left"  /\ current_pos[1] > 0 -> <<current_pos[1] - 1, current_pos[2]>>
              [] direction = "right" /\ current_pos[1] < 5 -> <<current_pos[1] + 1, current_pos[2]>>
              [] OTHER -> current_pos
    IN  [W EXCEPT !.player_positions = Put(@, player, new_pos)]

\* DamageEnemy with the removal of lines 423-424 and 440-441 left out
DamageEnemy_NoRemoval(W, target, damage) ==
    LET ref == W.state.enemies
        enemy == W.eh[ref][target]
        hit == [enemy EXCEPT !.hp = @ - damage]
    IN  IF target \in DOMAIN W.eh[ref]
        THEN [W EXCEPT !.eh[ref] = Put(@, target, hit)]
        ELSE W

\* lines 419-424 and 437-441: damage to a named enemy of state["enemies"]
DamageEnemy(W, target, damage) ==
    LET ref == W.state.enemies
        enemy == W.eh[ref][target]
        hit == [enemy EXCEPT !.hp = @ - damage]
    IN  IF target \in DOMAIN W.eh[ref]
        THEN IF hit.hp <= 0
             THEN [W EXCEPT !.eh[ref] = Del(@, target)]
             ELSE [W EXCEPT !.eh[ref] = Put(@, target, hit)]
        ELSE W

\* lines 417-424
DoAttack(W, target, damage) == DamageEnemy(W, target, damage)

\* lines 426-441; reading games[room_id]["players"][player] raises KeyError
\* when the player was removed from the player map
DoSpell(W, player, spell, target, amount) ==
    IF spell \in HealSpells
    THEN IF player \in DOMAIN players
         THEN [W EXCEPT !.player_hp[player] =
                   Min(@ + amount, players[player].max_hp)]
         ELSE [W EXCEPT !.crashed = TRUE]
    ELSE IF spell \in DamageSpells
         THEN DamageEnemy(W, target, amount)
         ELSE W

\* lines 443-450
DoShop(W, player, item_name) ==
    LET player_gold == W.gold[player]
        items == W.state.shop_items
        hits == {i \in 1 .. Len(items) :
                    items[i].name = item_name /\ player_gold >= items[i].cost}
        first == CHOOSE i \in hits : \A j \in hits : i <= j
    IN  IF hits = {}
        THEN W
        ELSE [W EXCEPT !.gold[player] = @ - items[first].cost,
                       !.inventory[player] = Append(@, items[first])]

\* lines 452-458
DoLoot(W, player, item_name) ==
    LET ref == W.state.loot_pool
        pool == W.lh[ref]
        hits == {i \in 1 .. Len(pool) : pool[i].name = item_name}
        first == CHOOSE i \in hits : \A j \in hits : i <= j
    IN  IF hits = {}
        THEN W
        ELSE [W EXCEPT !.inventory[player] = Append(@, pool[first]),
                       !.lh[ref] = Remove(@, pool[first])]

\* lines 462-469; generated is the result of generate_encounter and scatter
\* the random cell drawn for each player of player_order
DoNextPhaseSetup(W, generated, scatter) ==
    [W EXCEPT !.state.phase = "combat",
              !.state.encounter_number = @ + 1,
              !.state.enemies = FreshEnemyId,
              !.eh[FreshEnemyId] = generated,
              !.player_positions =
                  [x \in (DOMAIN @) \cup Range(player_order) |->
                      IF x \in Range(player_order) THEN scatter[x] ELSE @[x]]]

\* lines 471-479; award is the random gold drawn for each player of player_order
DoNextPhaseCombat(W, pool, award) ==
    IF DOMAIN W.eh[W.state.enemies] = {}
    THEN [W EXCEPT !.state.phase = "loot",
                   !.state.loot_pool = FreshLootId,
                   !.lh[FreshLootId] = pool,
                   !.xp = [x \in DOMAIN @ |->
                              IF x \in Range(player_order) THEN @[x] + 100 ELSE @[x]],
                   !.gold = [x \in DOMAIN @ |->
                              IF x \in Range(player_order) THEN @[x] + award[x] ELSE @[x]]]
    ELSE W

\* lines 481-483
DoNextPhaseLoot(W, listing) ==
    [W EXCEPT !.state.phase = "shop", !.state.shop_items = listing]

\* lines 485-496; the save files written here belong to the persistence
\* collaborator and are not part of the room
DoNextPhaseShop(W) == [W EXCEPT !.state.phase = "setup"]

----------------------------------------------------------------------------
(* Lines 498-515 and the start of the next loop iteration *)

\* lines 499-501: the entry of player_order after `turn`, cyclically
NextTurn(order, turn) == order[(IndexOf(order, turn) % Len(order)) + 1]

\* lines 507-515: the value of state["winner"] after the two checks
WinnerAfter(s, W) ==
    LET players_win == DOMAIN W.eh[s.enemies] = {} /\ s.phase = "combat"
        alive_players == {p \in Range(player_order) : Get(W.player_hp, p, 0) > 0}
        enemies_win == alive_players = {} /\ s.phase = "combat"
    IN  IF enemies_win THEN "Enemies"
        ELSE IF players_win THEN "Players"
        ELSE s.winner

\* The handler of connection c has run its action handler and left world W.
\* list.index raises ValueError when state["turn"] is no longer in
\* player_order: the handler then dies with what it changed in place kept and
\* nothing written back.  Otherwise the turn moves on, the local state becomes
\* the stored state, the winner is set, and the loop copies the state again.
Finish(c, op, W) ==
    LET applied == ~W.crashed /\ W.state.turn \in Range(player_order)
        s1 == [W.state EXCEPT !.turn = NextTurn(player_order, W.state.turn)]
        s2 == [s1 EXCEPT !.winner = WinnerAfter(s1, W)]
        newSt == IF applied THEN s2 ELSE st
        newConn == [conn EXCEPT ![c] = IF applied THEN Snapshot(c, s2) ELSE Closed]
    IN  /\ st' = newSt
        /\ conn' = newConn
        /\ player_positions' = W.player_positions
        /\ player_hp' = W.player_hp
        /\ inventory' = W.inventory
        /\ gold' = W.gold
        /\ xp' = W.xp
        /\ enemiesHeap' = CollectEnemies(W.eh, EnemyRefs(newSt, newConn))
        /\ lootHeap' = CollectLoot(W.lh, LootRefs(newSt, newConn))
        /\ last' = [op |-> op, player |-> ConnPlayer[c], applied |-> applied, turn |-> st.turn]
        /\ received' = received + 1
        /\ UNCHANGED <<players, player_order, level, spells, games>>

----------------------------------------------------------------------------
(* Actions *)

\* create_room, lines 163-181: the room as it is created
NewRoom ==
    [players          |-> EmptyFn,
     player_order     |-> << >>,
     state            |-> [turn |-> Null, phase |-> "setup", encounter_number |-> 0,
                           winner |-> Null, enemies |-> 0, loot_pool |-> 0,
                           shop_items |-> << >>],
     player_positions |-> EmptyFn,
     player_hp        |-> EmptyFn,
     inventory        |-> EmptyFn,
     gold             |-> EmptyFn,
     xp               |-> EmptyFn,
     level            |-> EmptyFn,
     spells           |-> EmptyFn,
     enemies          |-> EmptyFn,
     loot_pool        |-> << >>,
     op               |-> "create_room"]

\* load_rooms, lines 48-57, run when the module is loaded: the rooms that
\* save_rooms (line 505) had written when the server last stopped.  Both rooms
\* explored hold the character of SaveFiles in its first encounter: one was
\* saved after the first of the two enemies fell, the other by the
\* combat -> loot step (no enemy left, loot pool filled, 30 gold awarded).
SavedRooms ==
    LET room(f, s, g, x, en, lp) ==
            [players          |-> [p \in {"A"} |-> [max_hp |-> f.max_hp]],
             player_order     |-> <<"A">>,
             state            |-> s,
             player_positions |-> [p \in {"A"} |-> <<1, 0>>],
             player_hp        |-> [p \in {"A"} |-> f.hp],
             inventory        |-> [p \in {"A"} |-> f.inventory],
             gold             |-> [p \in {"A"} |-> g],
             xp               |-> [p \in {"A"} |-> x],
             level            |-> [p \in {"A"} |-> f.level],
             spells           |-> [p \in {"A"} |-> f.spells],
             enemies          |-> en,
             loot_pool        |-> lp,
             op               |-> "load_rooms"]
        combat == [turn |-> "A", phase |-> "combat", encounter_number |-> 1,
                   winner |-> Null, enemies |-> 1, loot_pool |-> 0,
                   shop_items |-> << >>]
        loot == [turn |-> "A", phase |-> "loot", encounter_number |-> 1,
                 winner |-> "Players", enemies |-> 1, loot_pool |-> 1,
                 shop_items |-> << >>]
    IN  {room(f, combat, f.gold, f.xp, Del(g, <<ty, 1>>), << >>) :
            f \in SaveFiles, ty \in EnemyTypes,
            g \in generate_encounter(1, {<<0, 0>>})}
        \cup
        {room(f, loot, f.gold + 30, f.xp + 100, EmptyFn, pool) :
            f \in SaveFiles, pool \in generate_loot}

\* A room of `games` before any request of this run: created by create_room,
\* or restored by load_rooms.  No connection is open.
Init ==
    \E room \in {NewRoom} \cup SavedRooms :
        /\ players = room.players
        /\ player_order = room.player_order
        /\ st = room.state
        /\ player_positions = room.player_positions
        /\ player_hp = room.player_hp
        /\ inventory = room.inventory
        /\ gold = room.gold
        /\ xp = room.xp
        /\ level = room.level
        /\ spells = room.spells
        /\ enemiesHeap = [i \in ObjIds |-> IF i = room.state.enemies
                                            THEN room.enemies ELSE EmptyFn]
        /\ lootHeap = [i \in ObjIds |-> IF i = room.state.loot_pool
                                         THEN room.loot_pool ELSE << >>]
        /\ conn = [c \in Conns |-> Closed]
        /\ last = [op |-> room.op, player |-> Null, applied |-> TRUE, turn |-> Null]
        /\ received = 0
        /\ games = EmptyFn

\* Join writing the new player_order into every room of `games`
Join_EveryRoom(player, player_data) ==
    LET order == IF player \in Range(player_order)
                 THEN player_order ELSE Append(player_order, player)
    IN  /\ players' = Put(players, player, [max_hp |-> player_data.max_hp])
        /\ player_order' = order
        /\ st' = IF st.turn = Null /\ order # << >>
                 THEN [st EXCEPT !.turn = order[1]] ELSE st
        /\ player_hp' = Put(player_hp, player, player_data.hp)
        /\ inventory' = Put(inventory, player, player_data.inventory)
        /\ gold' = Put(gold, player, player_data.gold)
        /\ xp' = Put(xp, player, player_data.xp)
        /\ level' = Put(level, player, player_data.level)
        /\ spells' = Put(spells, player, player_data.spells)
        /\ last' = [op |-> "join", player |-> player, applied |-> TRUE, turn |-> st.turn]
        /\ UNCHANGED <<player_positions, enemiesHeap, lootHeap, conn, received>>
        /\ games' = [id \in DOMAIN games |-> [games[id] EXCEPT !.player_order = order]]

\* Join without the membership test of line 214
Join_AlwaysAppend(player, player_data) ==
    LET order == Append(player_order, player)
    IN  /\ players' = Put(players, player, [max_hp |-> player_data.max_hp])
        /\ player_order' = order
        /\ st' = IF st.turn = Null /\ order # << >>
                 THEN [st EXCEPT !.turn = order[1]] ELSE st
        /\ player_hp' = Put(player_hp, player, player_data.hp)
        /\ inventory' = Put(inventory, player, player_data.inventory)
        /\ gold' = Put(gold, player, player_data.gold)
        /\ xp' = Put(xp, player, player_data.xp)
        /\ level' = Put(level, player, player_data.level)
        /\ spells' = Put(spells, player, player_data.spells)
        /\ last' = [op |-> "join", player |-> player, applied |-> TRUE, turn |-> st.turn]
        /\ UNCHANGED <<player_positions, enemiesHeap, lootHeap, conn, received, games>>

\* Join without lines 218-219: the turn of an empty room is left unset
Join_TurnUnset(player, player_data) ==
    LET order == IF player \in Range(player_order)
                 THEN player_order ELSE Append(player_order, player)
    IN  /\ players' = Put(players, player, [max_hp |-> player_data.max_hp])
        /\ player_order' = order
        /\ st' = st
        /\ player_hp' = Put(player_hp, player, player_data.hp)
        /\ inventory' = Put(inventory, player, player_data.inventory)
        /\ gold' = Put(gold, player, player_data.gold)
        /\ xp' = Put(xp, player, player_data.xp)
        /\ level' = Put(level, player, player_data.level)
        /\ spells' = Put(spells, player, player_data.spells)
        /\ last' = [op |-> "join", player |-> player, applied |-> TRUE, turn |-> st.turn]
        /\ UNCHANGED <<player_positions, enemiesHeap, lootHeap, conn, received, games>>

\* join_room, lines 200-230, for a request that is not answered by an error
Join(player, player_data) ==
    LET order == IF player \in Range(player_order)
                 THEN player_order ELSE Append(player_order, player)
    IN  /\ players' = Put(players, player, [max_hp |-> player_data.max_hp])
        /\ player_order' = order
        /\ st' = IF st.turn = Null /\ order # << >>
                 THEN [st EXCEPT !.turn = order[1]] ELSE st
        /\ player_hp' = Put(player_hp, player, player_data.hp)
        /\ inventory' = Put(inventory, player, player_data.inventory)
        /\ gold' = Put(gold, player, player_data.gold)
        /\ xp' = Put(xp, player, player_data.xp)
        /\ level' = Put(level, player, player_data.level)
        /\ spells' = Put(spells, player, player_data.spells)
        /\ last' = [op |-> "join", player |-> player, applied |-> TRUE, turn |-> st.turn]
        /\ UNCHANGED <<player_positions, enemiesHeap, lootHeap, conn, received, games>>

\* lines 380-392: a connection is accepted for a player of the player map
Connect(c) ==
    /\ conn[c].pc = "closed"
    /\ ConnPlayer[c] \in DOMAIN players
    /\ conn' = [conn EXCEPT ![c] = Snapshot(c, st)]
    /\ last' = [op |-> "connect", player |-> ConnPlayer[c], applied |-> TRUE, turn |-> st.turn]
    /\ UNCHANGED <<players, player_order, st, player_positions, player_hp,
                   inventory, gold, xp, level, spells, enemiesHeap, lootHeap,
                   received, games>>

\* lines 517-519 and 389-392: the sleep ends and the state is copied again
Wake(c) ==
    /\ conn[c].pc = "sleep"
    /\ st.turn = ConnPlayer[c]
    /\ conn' = [conn EXCEPT ![c] = Snapshot(c, st)]
    /\ last' = [op |-> "wake", player |-> ConnPlayer[c], applied |-> TRUE, turn |-> st.turn]
    /\ UNCHANGED <<players, player_order, st, player_positions, player_hp,
                   inventory, gold, xp, level, spells, enemiesHeap, lootHeap,
                   received, games>>

\* TurnAfterDisconnect with the update of lines 529-533 left out
TurnAfterDisconnect_Keep(order, turn, player) == turn

\* TurnAfterDisconnect with line 531 left out: the turn is always cleared
TurnAfterDisconnect_Null(order, turn, player) ==
    IF turn = player THEN Null ELSE turn

\* lines 528-533: the turn after `player` was removed, order being what is
\* left of player_order
TurnAfterDisconnect(order, turn, player) ==
    IF turn = player
    THEN IF order # << >> THEN order[1] ELSE Null
    ELSE turn

\* lines 521-534: WebSocketDisconnect raised by send_text or receive_text
Disconnect(c) ==
    LET player == ConnPlayer[c]
        inRoom == player \in Range(player_order)
        order == IF inRoom THEN Remove(player_order, player) ELSE player_order
        newSt == IF inRoom
                 THEN [st EXCEPT !.turn = TurnAfterDisconnect(order, st.turn, player)]
                 ELSE st
        newConn == [conn EXCEPT ![c] = Closed]
    IN  /\ conn[c].pc # "closed"
        /\ player_order' = order
        /\ players' = IF inRoom THEN Del(players, player) ELSE players
        /\ st' = newSt
        /\ conn' = newConn
        /\ enemiesHeap' = CollectEnemies(enemiesHeap, EnemyRefs(newSt, newConn))
        /\ lootHeap' = CollectLoot(lootHeap, LootRefs(newSt, newConn))
        /\ last' = [op |-> "disconnect", player |-> player, applied |-> inRoom, turn |-> st.turn]
        /\ UNCHANGED <<player_positions, player_hp, inventory, gold, xp, level,
                       spells, received, games>>

\* line 396: receive_text returns a message to the handler of connection c
Receiving(c) == conn[c].pc = "recv"

\* lines 396-397: the text received is not JSON, json.loads raises and the
\* handler ends without the disconnect bookkeeping
Malformed(c) ==
    LET newConn == [conn EXCEPT ![c] = Closed]
    IN  /\ Receiving(c)
        /\ conn' = newConn
        /\ enemiesHeap' = CollectEnemies(enemiesHeap, EnemyRefs(st, newConn))
        /\ lootHeap' = CollectLoot(lootHeap, LootRefs(st, newConn))
        /\ last' = [op |-> "malformed", player |-> ConnPlayer[c], applied |-> FALSE, turn |-> st.turn]
        /\ received' = received + 1
        /\ UNCHANGED <<players, player_order, st, player_positions, player_hp,
                       inventory, gold, xp, level, spells, games>>

\* {"action": {"move": direction}}
Move(c, direction) ==
    /\ Receiving(c)
    /\ Finish(c, "move", DoMove(World(conn[c].state), ConnPlayer[c], direction))

\* {"action": {"attack": target}}
Attack(c, target, damage) ==
    /\ Receiving(c)
    /\ Finish(c, "attack", DoAttack(World(conn[c].state), target, damage))

\* {"action": {"spell": spell, "target": target}}
Spell(c, spell, target, amount) ==
    /\ Receiving(c)
    /\ Finish(c, "spell", DoSpell(World(conn[c].state), ConnPlayer[c], spell, target, amount))

\* {"action": {"shop": item_name}}
Shop(c, item_name) ==
    /\ Receiving(c)
    /\ Finish(c, "shop", DoShop(World(conn[c].state), ConnPlayer[c], item_name))

\* {"action": {"loot": item_name}}
Loot(c, item_name) ==
    /\ Receiving(c)
    /\ Finish(c, "loot", DoLoot(World(conn[c].state), ConnPlayer[c], item_name))

\* {"action": {"next_phase": ...}} received by a handler whose state is in setup
NextPhaseSetup(c, enemyCells, scatterCells) ==
    /\ Receiving(c)
    /\ conn[c].state.phase = "setup"
    /\ \E generated \in generate_encounter(conn[c].state.encounter_number + 1, enemyCells),
          scatter \in [Range(player_order) -> scatterCells] :
          Finish(c, "next_phase", DoNextPhaseSetup(World(conn[c].state), generated, scatter))

\* ... in combat
NextPhaseCombat(c) ==
    /\ Receiving(c)
    /\ conn[c].state.phase = "combat"
    /\ \E pool \in generate_loot, award \in [Range(player_order) -> GoldAwards] :
          Finish(c, "next_phase", DoNextPhaseCombat(World(conn[c].state), pool, award))

\* ... in loot
NextPhaseLoot(c) ==
    /\ Receiving(c)
    /\ conn[c].state.phase = "loot"
    /\ \E listing \in generate_shop_items :
          Finish(c, "next_phase", DoNextPhaseLoot(World(conn[c].state), listing))

\* ... in shop
NextPhaseShop(c) ==
    /\ Receiving(c)
    /\ conn[c].state.phase = "shop"
    /\ Finish(c, "next_phase", DoNextPhaseShop(World(conn[c].state)))

\* {"action": {}} or an action with no recognised key: no handler runs
NoAction(c) ==
    /\ Receiving(c)
    /\ Finish(c, "none", World(conn[c].state))

\* One step of the room for clients that draw their inputs from the sets of I
\* and send at most I.budget messages
NextOn(I) ==
    \/ \E p \in I.players, d \in I.joinData : Join(p, d)
    \/ \E c \in I.conns : Connect(c)
    \/ \E c \in I.conns : Wake(c)
    \/ \E c \in I.conns : Disconnect(c)
    \/ received < I.budget /\ \E c \in I.conns : Malformed(c)
    \/ received < I.budget /\ \E c \in I.conns, d \in I.directions : Move(c, d)
    \/ received < I.budget /\
          \E c \in I.conns, t \in I.targets, dmg \in AttackDamages : Attack(c, t, dmg)
    \/ received < I.budget /\
          \E c \in I.conns, s \in I.spells, t \in I.targets :
             \E a \in IF s \in HealSpells THEN HealAmounts ELSE SpellDamages : Spell(c, s, t, a)
    \/ received < I.budget /\ \E c \in I.conns, i \in I.items : Shop(c, i)
    \/ received < I.budget /\ \E c \in I.conns, i \in I.items : Loot(c, i)
    \/ received < I.budget /\ \E c \in I.conns : NextPhaseSetup(c, I.enemyCells, I.scatterCells)
    \/ received < I.budget /\ \E c \in I.conns : NextPhaseCombat(c)
    \/ received < I.budget /\ \E c \in I.conns : NextPhaseLoot(c)
    \/ received < I.budget /\ \E c \in I.conns : NextPhaseShop(c)
    \/ received < I.budget /\ \E c \in I.conns : NoAction(c)

\* Two players, player A with two open connections: every interleaving of
\* joins, connections, actions and disconnects.  The clients name the two
\* enemies of the first encounter and one that does not exist, a healing and
\* a damaging spell, and an item of the shop and one of the loot pool.
RoomInputs ==
    [players      |-> Players,
     conns        |-> Conns,
     joinData     |-> {create_new_player(k) : k \in JoinClasses},
     directions   |-> {"left"},
     targets      |-> {<<"Goblin", 1>>, <<"Goblin", 2>>, NoEnemy},
     spells       |-> {"Healing Word", "Fireball"},
     items        |-> {"Mana Potion", "Gem"},
     enemyCells   |-> {<<0, 0>>},
     scatterCells |-> {<<1, 0>>},
     budget       |-> MaxReceived]

Next == NextOn(RoomInputs)

Spec == Init /\ [][Next]_vars

\* line 163: the identifiers that random.randint(1000, 9999) gives to the
\* rooms created during the run (the room modelled above has another one)
OtherRoomIds == {"room_1001"}

\* create_room, lines 163-184: the identifier drawn is not compared with the
\* keys of `games`; the new room is stored under it
CreateRoom(room_id) ==
    /\ games' = Put(games, room_id, NewRoom)
    /\ last' = [op |-> "create_room", player |-> Null, applied |-> TRUE, turn |-> st.turn]
    /\ UNCHANGED <<players, player_order, st, player_positions, player_hp,
                   inventory, gold, xp, level, spells, enemiesHeap, lootHeap,
                   conn, received>>

\* join_room, lines 200-230, as a function of the room record it works on
join_room(room, player, player_data) ==
    LET order == IF player \in Range(room.player_order)
                 THEN room.player_order ELSE Append(room.player_order, player)
    IN  [room EXCEPT
            !.players = Put(@, player, [max_hp |-> player_data.max_hp]),
            !.player_order = order,
            !.state.turn = IF @ = Null /\ order # << >> THEN order[1] ELSE @,
            !.player_hp = Put(@, player, player_data.hp),
            !.inventory = Put(@, player, player_data.inventory),
            !.spells = Put(@, player, player_data.spells),
            !.gold = Put(@, player, player_data.gold),
            !.level = Put(@, player, player_data.level),
            !.xp = Put(@, player, player_data.xp)]

\* join_room addressed to another room of `games`
JoinOther(room_id, player, player_data) ==
    /\ room_id \in DOMAIN games
    /\ games' = [games EXCEPT ![room_id] = join_room(@, player, player_data)]
    /\ last' = [op |-> "join_other", player |-> player, applied |-> TRUE, turn |-> st.turn]
    /\ UNCHANGED <<players, player_order, st, player_positions, player_hp,
                   inventory, gold, xp, level, spells, enemiesHeap, lootHeap,
                   conn, received>>

\* Two players with one connection each, loaded from save files without hit
\* points, while another room is created and joined by a new character
GamesInputs ==
    [players      |-> Players,
     conns        |-> {"c1", "c3"},
     joinData     |-> FallenSaveFiles,
     directions   |-> {"left"},
     targets      |-> {<<"Goblin", 2>>},
     spells       |-> {"Fireball"},
     items        |-> {"Mana Potion"},
     enemyCells   |-> {<<0, 0>>},
     scatterCells |-> {<<1, 0>>},
     budget       |-> MaxReceived]

NextGames ==
    \/ NextOn(GamesInputs)
    \/ \E id \in OtherRoomIds : CreateRoom(id)
    \/ \E id \in OtherRoomIds, k \in JoinClasses :
          JoinOther(id, "B", create_new_player(k))

SpecGames == Init /\ [][NextGames]_vars

----------------------------------------------------------------------------
(* Properties *)

\* the operations that are actions received from a client
ActionOps == {"move", "attack", "spell", "shop", "loot", "next_phase", "none"}

\* the step received a message that carried an action
ActionStep == received' = received + 1 /\ last'.op \in ActionOps

\* lines 389-392: the session state as a snapshot of the stored state shows it
SessionView ==
    [turn             |-> st.turn,
     phase            |-> st.phase,
     encounter_number |-> st.encounter_number,
     winner           |-> st.winner,
     enemies          |-> enemiesHeap[st.enemies],
     loot_pool        |-> lootHeap[st.loot_pool],
     shop_items       |-> st.shop_items,
     player_positions |-> player_positions,
     player_hp        |-> player_hp,
     inventory        |-> inventory,
     gold             |-> gold,
     xp               |-> xp]

\* the active enemy set of the stored state
ActiveEnemies == enemiesHeap[st.enemies]

(* C1: an action is applied to the room only if, at the moment it is applied, *)
(* the stored turn is the player who submitted it.                            *)
C1_TurnOwnership ==
    (last.op \in ActionOps /\ last.applied) => last.turn = last.player

(* C2: in every reachable state the turn is null or a player of player_order. *)
C2_TurnInOrder == st.turn = Null \/ st.turn \in Range(player_order)

\* a player disconnected after actions were applied and a turn holder remains
C2_Witness ==
    /\ last.op = "disconnect"
    /\ last.applied
    /\ received > 0
    /\ st.turn \in Range(player_order)

(* C3: once the winner holds a value, no later step changes it. *)
C3_WinnerFinal == [][st.winner # Null => st'.winner = st.winner]_vars

(* C4: once the winner is set, every action submitted leaves the whole *)
(* session state unchanged.                                            *)
C4_TerminalFreeze ==
    [][(st.winner # Null /\ ActionStep) => SessionView' = SessionView]_vars

(* C5: no two living entities (players of the room, active enemies) are on *)
(* the same grid cell.                                                     *)
C5_GridOccupancy ==
    LET living == {p \in Range(player_order) \cap DOMAIN player_positions :
                      Get(player_hp, p, 0) > 0}
        named == DOMAIN ActiveEnemies
    IN  /\ \A p, q \in living : p # q => player_positions[p] # player_positions[q]
        /\ \A e, f \in named : e # f => ActiveEnemies[e].position # ActiveEnemies[f].position
        /\ \A p \in living, e \in named : player_positions[p] # ActiveEnemies[e].position

(* C6: every enemy of the active set, in the stored state and in the state *)
(* copy of every handler, has hit points above 0: an enemy driven to 0 or  *)
(* below is removed within the action that hit it.                         *)
C6_LiveEnemies ==
    /\ \A n \in DOMAIN ActiveEnemies : ActiveEnemies[n].hp > 0
    /\ \A c \in Conns : conn[c].pc = "recv" =>
          \A n \in DOMAIN enemiesHeap[conn[c].state.enemies] :
             enemiesHeap[conn[c].state.enemies][n].hp > 0

\* the third message was a spell that removed the last enemy of the encounter
C6_Witness ==
    /\ last.op = "spell"
    /\ last.applied
    /\ received = 3
    /\ st.phase = "combat"
    /\ st.encounter_number = 1
    /\ DOMAIN ActiveEnemies = {}

(* C7: a shop action adds an item to the buyer's inventory only if the item *)
(* is in the stored shop listing and the buyer's gold covers its cost; then  *)
(* the gold decreases by exactly the cost and the item is appended once;     *)
(* otherwise the buyer's gold and inventory are unchanged.                   *)
C7_ShopBalance ==
    [][(received' = received + 1 /\ last'.op = "shop") =>
        LET p == last'.player
        IN  IF inventory'[p] # inventory[p]
            THEN \E i \in 1 .. Len(st.shop_items) :
                    /\ gold[p] >= st.shop_items[i].cost
                    /\ gold'[p] = gold[p] - st.shop_items[i].cost
                    /\ inventory'[p] = Append(inventory[p], st.shop_items[i])
            ELSE gold'[p] = gold[p]]_vars

(* C8: the stored encounter number never decreases. *)
C8_EncounterMonotone == [][st'.encounter_number >= st.encounter_number]_vars

(* C9: every applied action passes the turn from its holder to the next *)
(* entry of player_order, cyclically, so that N applied actions give the *)
(* turn to each of the N players once and return it.                     *)
C9_TurnRotation ==
    (last.op \in ActionOps /\ last.applied /\ last.turn \in Range(player_order))
        => st.turn = NextTurn(player_order, last.turn)

(* C10: the disconnect of a player of the room removes the player from *)
(* player_order and from the player map; the turn passes to the first  *)
(* remaining entry, or to null, if the player held it, and is unchanged *)
(* otherwise.                                                           *)
C10_DisconnectBookkeeping ==
    [][(last'.op = "disconnect" /\ last'.player \in Range(player_order)) =>
        LET p == last'.player
        IN  /\ player_order' = SelectSeq(player_order, LAMBDA x : x # p)
            /\ p \notin Range(player_order')
            /\ DOMAIN players' = DOMAIN players \ {p}
            /\ st'.turn = IF st.turn = p
                          THEN IF player_order' = << >> THEN Null ELSE player_order'[1]
                          ELSE st.turn]_vars

\* the turn holder disconnected and the turn went to the player who remains
C10_Witness ==
    /\ last.op = "disconnect"
    /\ last.applied
    /\ last.turn = last.player
    /\ player_order # << >>
    /\ st.turn = player_order[1]

\* lines 498-515, as a value: the room left by a handler whose action
\* handler left the world W (the scalar entries, the objects the references
\* lead to, and the shared dictionaries).  Defined when the turn of W.state
\* is in player_order.
RoomAfter(W) ==
    LET s1 == [W.state EXCEPT !.turn = NextTurn(player_order, W.state.turn)]
        s2 == [s1 EXCEPT !.winner = WinnerAfter(s1, W)]
    IN  [turn             |-> s2.turn,
         phase            |-> s2.phase,
         encounter_number |-> s2.encounter_number,
         winner           |-> s2.winner,
         shop_items       |-> s2.shop_items,
         enemies          |-> W.eh[s2.enemies],
         loot_pool        |-> W.lh[s2.loot_pool],
         player_positions |-> W.player_positions,
         player_hp        |-> W.player_hp,
         inventory        |-> W.inventory,
         gold             |-> W.gold,
         xp               |-> W.xp]

\* The room that the handler of player p leaves when it holds the local state
\* s and resolves the action op (lines 398-515); the random draws are fixed.
Resolved(s, p, op) ==
    LET W0 == World(s)
    IN  RoomAfter(
            CASE op = "move" -> DoMove(W0, p, "left")
              [] op = "next_phase" /\ s.phase = "combat" ->
                     DoNextPhaseCombat(W0, CHOOSE pool \in generate_loot : TRUE,
                                       [x \in Range(player_order) |->
                                           CHOOSE g \in GoldAwards : TRUE])
              [] op = "next_phase" /\ s.phase = "loot" ->
                     DoNextPhaseLoot(W0, CHOOSE l \in generate_shop_items : TRUE)
              [] op = "next_phase" /\ s.phase = "shop" -> DoNextPhaseShop(W0)
              [] OTHER -> W0)

(* C11: when a player disconnects while the handler of another player holds *)
(* a state copy and waits for its action, the room that the action then     *)
(* leaves equals the room left by running the disconnect entirely before    *)
(* the action (the copy taken after it) or entirely after the action.       *)
C11_DisconnectAtomic ==
    [][last'.op = "disconnect" /\ last'.applied =>
        \A c \in Conns, op \in {"move", "next_phase", "none"} :
            LET p == ConnPlayer[c]
                q == last'.player
                interleaved == Resolved(conn[c].state, p, op)'
                before == Resolved(st, p, op)'
                action == Resolved(conn[c].state, p, op)
                after == [action EXCEPT
                             !.turn = TurnAfterDisconnect(player_order', @, q)]
            IN  (conn[c].pc = "recv" /\ p # q /\ p \in Range(player_order))
                => \/ st'.turn = p /\ interleaved = before
                   \/ interleaved = after]_vars

C13_WinOnlyAtLastEncounter ==
    [][st.winner = "Players" => st'.encounter_number <= st.encounter_number]_vars

(* C14: when the turn holder names an enemy that is not in the active set *)
(* in an attack or a damaging spell, or asks the shop for an item that is *)
(* not listed or that the holder cannot pay, the session state after the  *)
(* submission is the state before it, turn included.                      *)
C14_RejectedNoMutation ==
    \A c \in Conns :
        (conn[c].pc = "recv" /\ conn[c].state = st
            /\ ConnPlayer[c] \in Range(player_order)) =>
        LET p == ConnPlayer[c]
            W == World(st)
            absent == RoomInputs.targets \ DOMAIN ActiveEnemies
            refused == {i \in RoomInputs.items \cup {"Elixir"} :
                          ~ \E k \in 1 .. Len(st.shop_items) :
                               /\ st.shop_items[k].name = i
                               /\ gold[p] >= st.shop_items[k].cost}
        IN  /\ \A e \in absent, d \in AttackDamages :
                  RoomAfter(DoAttack(W, e, d)) = SessionView
            /\ \A e \in absent, s \in DamageSpells, d \in SpellDamages :
                  RoomAfter(DoSpell(W, p, s, e, d)) = SessionView
            /\ \A i \in refused : RoomAfter(DoShop(W, p, i)) = SessionView

(* C15: a new room starts in setup, and the stored phase changes only by a *)
(* next_phase action of the turn holder, one step along setup -> combat   *)
(* -> loot -> shop -> setup; combat is left only when no enemy is active, *)
(* and leaving setup adds one to the encounter number and installs a      *)
(* newly generated enemy set.                                             *)
C15_PhaseCycle ==
    [][/\ NewRoom.state.phase = "setup"
       /\ st'.phase # st.phase =>
            /\ last'.op = "next_phase"
            /\ last'.player = st.turn
            /\ <<st.phase, st'.phase>> \in
                  {<<"setup", "combat">>, <<"combat", "loot">>,
                   <<"loot", "shop">>, <<"shop", "setup">>}
            /\ st.phase = "combat" => DOMAIN ActiveEnemies = {}
            /\ st.phase = "setup" =>
                  /\ st'.encounter_number = st.encounter_number + 1
                  /\ ActiveEnemies' \in
                        generate_encounter(st'.encounter_number, RoomInputs.enemyCells)]_vars

\* the modelled room, as stored in `games`
ThisRoom ==
    <<players, player_order, SessionView, level, spells>>

(* C16: a join, an action or a disconnect addressed to the modelled room  *)
(* leaves every other room of `games` unchanged, and a join addressed to  *)
(* another room leaves the modelled room unchanged.                       *)
C16_RoomIsolation ==
    [][/\ last'.op \in ActionOps \cup {"join", "disconnect", "malformed", "connect", "wake"}
            => games' = games
       /\ last'.op = "join_other" => ThisRoom' = ThisRoom]_vars

\* another room exists and holds a player while a player of the modelled
\* room, which has seen an action applied, has just disconnected
C16_Witness ==
    /\ \E id \in DOMAIN games : games[id].player_order # << >>
    /\ last.op = "disconnect"
    /\ last.applied
    /\ received > 0

(* C17: every create_room call stores an empty session under an identifier *)
(* that no existing room has, and leaves every existing room as it was.    *)
C17_FreshRoom ==
    [][last'.op = "create_room" =>
        /\ \E id \in DOMAIN games' \ DOMAIN games :
              /\ games'[id].players = EmptyFn
              /\ games'[id].player_order = << >>
              /\ games'[id].state.turn = Null
              /\ games'[id].state.phase = "setup"
              /\ games'[id].state.encounter_number = 0
        /\ \A id \in DOMAIN games : games'[id] = games[id]
        /\ ThisRoom' = ThisRoom]_vars

\* Manhattan distance between two cells
Distance(a, b) ==
    (IF a[1] > b[1] THEN a[1] - b[1] ELSE b[1] - a[1])
        + (IF a[2] > b[2] THEN a[2] - b[2] ELSE b[2] - a[2])

(* C18: an attack lowers the hit points of an enemy only if the enemy is at *)
(* Manhattan distance 1 from the attacker, and then by exactly 3 (removing  *)
(* it when that leaves none); no other enemy changes.                       *)
C18_MeleeAttack ==
    [][(received' = received + 1 /\ last'.op = "attack" /\ st'.enemies = st.enemies) =>
        \A n \in DOMAIN ActiveEnemies :
            LET enemy == ActiveEnemies[n]
                adjacent == /\ last'.player \in DOMAIN player_positions
                            /\ Distance(player_positions[last'.player], enemy.position) = 1
            IN  IF n \in DOMAIN ActiveEnemies'
                THEN \/ ActiveEnemies'[n].hp = enemy.hp
                     \/ adjacent /\ ActiveEnemies'[n].hp = enemy.hp - 3
                ELSE adjacent /\ enemy.hp <= 3]_vars

(* C19: a message that is not a well-formed action (unparseable text, or a *)
(* payload with no recognised action tag) leaves the session state as it   *)
(* was and every handler that was waiting for an action still waiting.     *)
C19_MalformedNoOp ==
    [][(received' = received + 1 /\ last'.op \in {"malformed", "none"}) =>
        /\ SessionView' = SessionView
        /\ \A c \in Conns : conn[c].pc = "recv" => conn'[c].pc = "recv"]_vars

\* player_order holds no identifier twice, names exactly the keys of the
\* player map, and every player of it has an entry in each per-player table
Roster ==
    /\ \A i, j \in 1 .. Len(player_order) : i # j => player_order[i] # player_order[j]
    /\ Range(player_order) = DOMAIN players
    /\ \A p \in Range(player_order) :
          p \in DOMAIN player_hp \cap DOMAIN gold \cap DOMAIN xp \cap DOMAIN level
                  \cap DOMAIN inventory \cap DOMAIN spells

C21_TurnHolder ==
    /\ [](st.turn = Null <=> player_order = << >>)
    /\ [][/\ (last'.op = "join" /\ player_order = << >>) => st'.turn = last'.player
          /\ (/\ last'.op = "disconnect"
              /\ last'.applied
              /\ player_order = <<last'.player>>) => st'.turn = Null]_vars

\* the last player of a room that was created empty (no encounter yet), who
\* got the turn by joining and has acted, has disconnected
C21_Witness ==
    /\ last.op = "disconnect"
    /\ last.applied
    /\ last.turn = last.player
    /\ player_order = << >>
    /\ st.encounter_number = 0
    /\ received > 0

\* the entries of the loot pool of the stored state
LootPool == lootHeap[st.loot_pool]

(* C22: loot is claimed exactly once.  A loot action naming an item present *)
(* in the loot pool removes exactly one matching entry from the pool and    *)
(* appends exactly that entry to the inventory of the acting player,        *)
(* changing no other inventory; a loot action naming an item that is not in *)
(* the pool changes neither the pool nor any inventory.  Hence no entry of  *)
(* a pool is ever held by two inventories.                                  *)
C22_LootOnce ==
    [][\A c \in Conns, item_name \in RoomInputs.items :
          Loot(c, item_name) =>
             LET player == ConnPlayer[c]
                 hits == {k \in 1 .. Len(LootPool) : LootPool[k].name = item_name}
                 without(k) == SubSeq(LootPool, 1, k - 1)
                                   \o SubSeq(LootPool, k + 1, Len(LootPool))
             IN  IF hits = {}
                 THEN LootPool' = LootPool /\ inventory' = inventory
                 ELSE \E k \in hits :
                         /\ LootPool' = without(k)
                         /\ inventory' = [inventory EXCEPT
                                             ![player] = Append(@, LootPool[k])]]_vars

====
